---------------------------- MODULE Spec2Model ----------------------------
(***************************************************************************)
(* Time-dependent RMSF (src/tRMSF/trmsfkit.py): the analysis class         *)
(* trmsfkit, its three hooks _prepare, _single_frame and _conclude, and    *)
(* the driver loop of the base class that calls them (AnalysisBase.run:    *)
(* _prepare once, _single_frame once per visited frame with                *)
(* _frame_index = 0, 1, ..., then _conclude).                              *)
(*                                                                         *)
(* Numbers.  Coordinates are floating point in the code.  The model keeps  *)
(* them exact: a number is either not-a-number or a rational num/den, and  *)
(* a square root is kept as sqrt(rad)/den.  Rounding is not modelled.      *)
(*                                                                         *)
(* Indices.  Particles are 1..n_atoms and table rows 1..n_frames in the    *)
(* model; the code's row s is the model's row s+1.  Frame numbers are      *)
(* 0-based as in the code; frame f is trajectory[f+1].                     *)
(***************************************************************************)
EXTENDS Integers, Sequences, FiniteSets, TLC

VARIABLES
    trajectory,          \* the frames of atomgroup.universe.trajectory
    n_atoms,             \* atomgroup.n_atoms                       (P)
    skip,                \* self.skip                               (K)
    reference_frame,     \* self.reference_frame                    (R)
    stop,                \* number of frames the driver visits      (M)
    ts,                  \* frame the trajectory currently exposes (live buffer)
    pc,                  \* lifecycle of the run
    n_visited,           \* frames handed to _single_frame so far
    trmsf,               \* self.results.trmsf
    reference_positions, \* self.reference_positions
    avg_coordinates,     \* self.avg_coordinates
    seg_length,          \* self.seg_length
    writes,              \* history: how often each row of trmsf was assigned
    closed_length,       \* history: seg_length at the last assignment of each row
    run_no,              \* history: which run of the same object this is
    prev_trmsf           \* history: results.trmsf at the end of the previous run

vars == <<trajectory, n_atoms, skip, reference_frame, stop, ts, pc, n_visited,
          trmsf, reference_positions, avg_coordinates, seg_length, writes,
          closed_length, run_no, prev_trmsf>>

config == <<trajectory, n_atoms, skip, reference_frame, stop>>

-----------------------------------------------------------------------------
(* Bounds of the model *)

MaxF == 4
MaxP == 2
MaxK == 3
MaxRuns == 2

-----------------------------------------------------------------------------
(* Floating point values, kept exact *)

Num(v) == [nan |-> FALSE, num |-> v, den |-> 1]

NaN == [nan |-> TRUE, num |-> 0, den |-> 1]

\* a + b
FAdd(a, b) ==
    IF a.nan \/ b.nan THEN NaN
    ELSE IF a.den = b.den THEN [nan |-> FALSE, num |-> a.num + b.num, den |-> a.den]
    ELSE [nan |-> FALSE, num |-> a.num * b.den + b.num * a.den, den |-> a.den * b.den]

\* a - b
FSub(a, b) ==
    IF a.nan \/ b.nan THEN NaN
    ELSE IF a.den = b.den THEN [nan |-> FALSE, num |-> a.num - b.num, den |-> a.den]
    ELSE [nan |-> FALSE, num |-> a.num * b.den - b.num * a.den, den |-> a.den * b.den]

\* a / n for an integer n; n = 0 gives no finite number
FDiv(a, n) ==
    IF a.nan \/ n = 0 THEN NaN
    ELSE IF n > 0 THEN [nan |-> FALSE, num |-> a.num, den |-> a.den * n]
    ELSE [nan |-> FALSE, num |-> -a.num, den |-> a.den * (-n)]

\* a ** 2
FSquare(a) ==
    IF a.nan THEN NaN
    ELSE [nan |-> FALSE, num |-> a.num * a.num, den |-> a.den * a.den]

\* A root sqrt(rad)/den, or not-a-number
NaNRoot == [nan |-> TRUE, rad |-> 0, den |-> 1]

ZeroRoot == [nan |-> FALSE, rad |-> 0, den |-> 1]

\* np.sqrt(a): sqrt(num/den) = sqrt(num*den)/den; the root of a negative is nan
FSqrt(a) ==
    IF a.nan \/ a.num < 0 THEN NaNRoot
    ELSE [nan |-> FALSE, rad |-> a.num * a.den, den |-> a.den]

\* x < 0 for a table entry sqrt(rad)/den: false for nan
Negative(x) == ~x.nan /\ x.rad > 0 /\ x.den < 0

\* x >= 0 for a table entry sqrt(rad)/den: false for nan
GE0(x) == ~x.nan /\ (x.rad = 0 \/ x.den > 0)

\* Two table entries are the same number
SameValue(x, y) ==
    /\ x.nan = y.nan
    /\ ~x.nan => x.rad * y.den * y.den = y.rad * x.den * x.den

-----------------------------------------------------------------------------
(* Arrays *)

Axes == 1..3

\* np.zeros((n_atoms, 3))
ZeroCoordinates(P) == [p \in 1..P |-> [a \in Axes |-> Num(0)]]

\* np.zeros((n_frames, n_atoms))
ZeroTable(S, P) == [s \in 1..S |-> [p \in 1..P |-> ZeroRoot]]

\* atomgroup.positions while the trajectory exposes frame f
Positions(traj, f) == traj[f + 1]

-----------------------------------------------------------------------------
(* Python integer arithmetic and slicing, for a >= 0 and b # 0 *)

\* a // b: the quotient rounded towards minus infinity
FloorDiv(a, b) ==
    IF b > 0 THEN a \div b ELSE -((a + (-b) - 1) \div (-b))

\* a % b: has the sign of b
Mod(a, b) == a - b * FloorDiv(a, b)

\* Mutant of SliceLen: the number of whole strides, F // step
SliceLenFloor(F, step) == F \div step

\* len(self._trajectory[::step]) for a trajectory of F frames, step # 0:
\* the frames 0, step, 2*step, ... (step > 0) or F-1, F-1+step, ... (step < 0)
SliceLen(F, step) ==
    IF step > 0
    THEN Cardinality({f \in 0..(F - 1) : f % step = 0})
    ELSE Cardinality({f \in 0..(F - 1) : (F - 1 - f) % (-step) = 0})

\* Mutant of SeekFrame: the first frame is read whatever frame is asked for
SeekFrameFirst(F, frame) == 0

\* self._trajectory[frame]: a negative frame counts from the end; a frame
\* outside the trajectory raises IndexError (here: -1)
SeekFrame(F, frame) ==
    LET f == IF frame < 0 THEN frame + F ELSE frame
    IN  IF f < 0 \/ f >= F THEN -1 ELSE f

\* trmsf[seg_num] = ...: a negative row counts from the end; a row outside
\* the table raises IndexError (here: 0); otherwise the model's row number
RowOf(seg_num, n_rows) ==
    LET r == IF seg_num < 0 THEN seg_num + n_rows ELSE seg_num
    IN  IF r < 0 \/ r >= n_rows THEN 0 ELSE r + 1

-----------------------------------------------------------------------------
(* _prepare *)

\* n_frames = len(self._trajectory[::self.skip])
NFrames == SliceLen(Len(trajectory), skip)

\* Mutant of CopyOf: the reference is kept as a view of the live buffer
ViewOf(positions) == [view |-> TRUE, data |-> positions]

\* self.atomgroup.positions.copy(): the values, detached from the live buffer
CopyOf(positions) == [view |-> FALSE, data |-> positions]

\* What self.reference_positions reads as while the trajectory exposes frame f
ReferenceAt(f) ==
    IF reference_positions.view THEN Positions(trajectory, f)
    ELSE reference_positions.data

ReferenceValue == ReferenceAt(ts)

Prepare ==
    /\ pc = "Unprepared"
    /\ n_visited' = 0
    /\ IF skip = 0
       THEN \* a slice step of zero raises ValueError
            /\ pc' = "Failed"
            /\ UNCHANGED <<ts, trmsf, reference_positions, writes, closed_length>>
       ELSE /\ trmsf' = ZeroTable(NFrames, n_atoms)
            /\ writes' = [s \in 1..NFrames |-> 0]
            /\ closed_length' = [s \in 1..NFrames |-> 0]
            /\ LET f == SeekFrame(Len(trajectory), reference_frame)
               IN  IF f < 0
                   THEN /\ pc' = "Failed"
                        /\ UNCHANGED <<ts, reference_positions>>
                   ELSE /\ pc' = "Prepared"
                        /\ ts' = f
                        /\ reference_positions' = CopyOf(Positions(trajectory, f))
    /\ UNCHANGED <<config, avg_coordinates, seg_length, run_no, prev_trmsf>>

-----------------------------------------------------------------------------
(* _single_frame *)

\* Mutant of SegNum: "%" for "//"
SegNumByMod(i) == Mod(i, skip)

\* seg_num = self._frame_index // self.skip
SegNum(i) == FloorDiv(i, skip)

\* frame_index = self._frame_index % self.skip
FrameIndex(i) == Mod(i, skip)

\* Mutant of StartsSegment: the first frame of a run resets the sum and counter
\* only when nothing has been accumulated yet
StartsSegmentLazy(i) == Mod(i, skip) = 0 /\ (i > 0 \/ seg_length = 0)

\* Mutant of StartsSegment: the sum and counter are reset at the first frame only
StartsSegmentFirstOnly(i) == i = 0

\* if frame_index == 0:
StartsSegment(i) == FrameIndex(i) = 0

\* Mutant of ClosesSegment: the last frame visited closes the segment
ClosesSegmentAtLastVisited(i) ==
    \/ Mod(i, skip) + 1 = skip
    \/ i = stop - 1

\* Mutant of ClosesSegment: only the end of the trajectory closes a segment
ClosesSegmentAtEndOnly(i) == i = Len(trajectory) - 1

\* Mutant of ClosesSegment: "<=" for "==" in the end-of-trajectory test
ClosesSegmentUpToLast(i) ==
    \/ Mod(i, skip) + 1 = skip
    \/ i <= Len(trajectory) - 1

\* if (frame_index + 1) == self.skip or self._frame_index == (len(self._trajectory) - 1):
ClosesSegment(i) ==
    \/ FrameIndex(i) + 1 = skip
    \/ i = Len(trajectory) - 1

\* Mutant of Accumulate: "=" for "+="
AccumulateOverwrite(sum, positions) ==
    [p \in 1..n_atoms |-> [a \in Axes |-> positions[p][a]]]

\* self.avg_coordinates += self.atomgroup.positions
Accumulate(sum, positions) ==
    [p \in 1..n_atoms |-> [a \in Axes |-> FAdd(sum[p][a], positions[p][a])]]

\* np.sum(sq, axis=1) for one particle
SumAxes(sq) == FAdd(FAdd(sq[1], sq[2]), sq[3])

\* Mutant of Rmsf: the differences are summed unsquared
RmsfUnsquared(sum, n, ref) ==
    [p \in 1..n_atoms |->
        FSqrt(SumAxes([a \in Axes |-> FSub(ref[p][a], FDiv(sum[p][a], n))]))]

\* Mutant of Rmsf: the running sum is compared with the reference, undivided
RmsfOfSum(sum, n, ref) ==
    [p \in 1..n_atoms |->
        FSqrt(SumAxes([a \in Axes |-> FSquare(FSub(ref[p][a], sum[p][a]))]))]

\* avg_coordinates = self.avg_coordinates / self.seg_length
\* diff = self.reference_positions - avg_coordinates
\* rmsf = np.sqrt(np.sum(diff**2, axis=1))
Rmsf(sum, n, ref) ==
    [p \in 1..n_atoms |->
        FSqrt(SumAxes([a \in Axes |-> FSquare(FSub(ref[p][a], FDiv(sum[p][a], n)))]))]

SingleFrame ==
    /\ pc \in {"Prepared", "Accumulating"}
    /\ n_visited < stop
    /\ LET i == n_visited
           positions == Positions(trajectory, i)
           base == IF StartsSegment(i) THEN ZeroCoordinates(n_atoms) ELSE avg_coordinates
           count == IF StartsSegment(i) THEN 0 ELSE seg_length
           row == RowOf(SegNum(i), Len(trmsf))
       IN  /\ ts' = i
           /\ n_visited' = i + 1
           /\ avg_coordinates' = Accumulate(base, positions)
           /\ seg_length' = count + 1
           /\ IF ~ClosesSegment(i)
              THEN /\ pc' = "Accumulating"
                   /\ UNCHANGED <<trmsf, writes, closed_length>>
              ELSE IF row = 0
              THEN /\ pc' = "Failed"
                   /\ UNCHANGED <<trmsf, writes, closed_length>>
              ELSE /\ pc' = "Accumulating"
                   /\ trmsf' = [trmsf EXCEPT
                          ![row] = Rmsf(avg_coordinates', seg_length', ReferenceAt(i))]
                   /\ writes' = [writes EXCEPT ![row] = @ + 1]
                   /\ closed_length' = [closed_length EXCEPT ![row] = seg_length']
    /\ UNCHANGED <<config, reference_positions, run_no, prev_trmsf>>

-----------------------------------------------------------------------------
(* _conclude *)

\* Mutant of AllNonNegative: not (self.results.trmsf < 0).any()
NoneNegative(table) ==
    \A s \in 1..Len(table) : \A p \in DOMAIN table[s] : ~Negative(table[s][p])

\* (self.results.trmsf >= 0).all()
AllNonNegative(table) ==
    \A s \in 1..Len(table) : \A p \in DOMAIN table[s] : GE0(table[s][p])

Conclude ==
    /\ pc \in {"Prepared", "Accumulating"}
    /\ n_visited = stop
    /\ pc' = IF AllNonNegative(trmsf) THEN "Concluded" ELSE "Failed"
    /\ UNCHANGED <<config, ts, n_visited, trmsf, reference_positions,
                   avg_coordinates, seg_length, writes, closed_length,
                   run_no, prev_trmsf>>

-----------------------------------------------------------------------------
(* run() called again on the same object with the same arguments *)

Rerun ==
    /\ pc = "Concluded"
    /\ run_no < MaxRuns
    /\ run_no' = run_no + 1
    /\ prev_trmsf' = trmsf
    /\ pc' = "Unprepared"
    /\ UNCHANGED <<config, ts, n_visited, trmsf, reference_positions,
                   avg_coordinates, seg_length, writes, closed_length>>

-----------------------------------------------------------------------------
(* Inputs *)

Point(x, y, z) == <<Num(x), Num(y), Num(z)>>

\* The frames a trajectory is built from, for P particles: all at the origin;
\* only the first particle displaced; two frames with every particle displaced
FrameSet(P) ==
    { [p \in 1..P |-> Point(0, 0, 0)],
      [p \in 1..P |-> IF p = 1 THEN Point(2, 0, 0) ELSE Point(0, 0, 0)],
      [p \in 1..P |-> Point(p, -2, 2 * p)],
      [p \in 1..P |-> Point(-1, p, 3)] }

\* A frame whose first particle has a coordinate that is not a number
NaNFrame(P) == [p \in 1..P |-> IF p = 1 THEN <<NaN, Num(0), Num(1)>> ELSE Point(1, 1, 0)]

ValidR(F) == 0..(F - 1)

AnyR(F) == (-F - 1)..F

FrameSetNaN(P) == FrameSet(P) \cup {NaNFrame(P)}

\* Two frames only: all at the origin, and only the first particle displaced
FrameSetSmall(P) ==
    { [p \in 1..P |-> Point(0, 0, 0)],
      [p \in 1..P |-> IF p = 1 THEN Point(2, 0, 0) ELSE Point(0, 0, 0)] }

\* The frames to build trajectories from
Frames(kind, P) ==
    CASE kind = "finite" -> FrameSet(P)
      [] kind = "nan" -> FrameSetNaN(P)
      [] kind = "small" -> FrameSetSmall(P)

\* The arguments of the constructor and of run(): the universe's trajectory,
\* the atom group, skip, reference_frame, and how many frames run() visits
InitConfig(Ps, Ks, any_r, kind, partial) ==
    /\ n_atoms \in Ps
    /\ skip \in Ks
    /\ \E F \in 1..MaxF :
          /\ trajectory \in [1..F -> Frames(kind, n_atoms)]
          /\ reference_frame \in (IF any_r THEN AnyR(F) ELSE ValidR(F))
          /\ stop \in (IF partial THEN 0..F ELSE {F})

\* The state of a new trmsfkit object on a universe whose first frame is loaded;
\* the attributes the hooks create later do not exist yet
InitObject ==
    /\ ts = 0
    /\ pc = "Unprepared"
    /\ n_visited = 0
    /\ trmsf = <<>>
    /\ reference_positions = CopyOf(<<>>)
    /\ avg_coordinates = <<>>
    /\ seg_length = 0
    /\ writes = <<>>
    /\ closed_length = <<>>
    /\ run_no = 1
    /\ prev_trmsf = <<>>

\* A valid configuration, finite coordinates, every frame visited
Init == InitConfig(1..MaxP, 1..MaxK, FALSE, "finite", FALSE) /\ InitObject

Next == Prepare \/ SingleFrame \/ Conclude

Spec == Init /\ [][Next]_vars

\* The runs of Spec over trajectories of two kinds of frame
InitSmall == InitConfig(1..MaxP, 1..MaxK, FALSE, "small", FALSE) /\ InitObject

\* The driver is a sequential loop: it takes its next step whenever there is one
FairSpec == InitSmall /\ [][Next]_vars /\ WF_vars(Next)

\* Any configuration the constructor accepts
InitAny == InitConfig(0..MaxP, (-MaxK)..MaxK, TRUE, "finite", FALSE) /\ InitObject

SpecAny == InitAny /\ [][Next]_vars

\* A valid configuration whose frames may hold a coordinate that is not a number
InitNaN == InitConfig(1..MaxP, 1..MaxK, FALSE, "nan", FALSE) /\ InitObject

SpecNaN == InitNaN /\ [][Next]_vars

\* A valid configuration, run(stop=M) visiting only the first M frames
InitPartial == InitConfig(1..MaxP, 1..MaxK, FALSE, "finite", TRUE) /\ InitObject

SpecPartial == InitPartial /\ [][Next]_vars

\* The same object run again
NextRerun == Next \/ Rerun

SpecRerun == Init /\ [][NextRerun]_vars

-----------------------------------------------------------------------------
(* What the specification says a run computes *)

\* ceil(F / K)
CeilDiv(F, K) == (F + K - 1) \div K

NumSegments == CeilDiv(Len(trajectory), skip)

\* The frames of segment s (0-based): the indices i with i div K = s
SegmentFrames(s) == {i \in 0..(Len(trajectory) - 1) : i \div skip = s}

\* The size the specification gives segment s
SegmentSize(s) ==
    IF Len(trajectory) % skip # 0 /\ s = NumSegments - 1
    THEN Len(trajectory) % skip
    ELSE skip

RECURSIVE SumCoord(_, _, _)
\* Sum over the frames in S of coordinate a of particle p
SumCoord(S, p, a) ==
    IF S = {} THEN 0
    ELSE LET i == CHOOSE x \in S : TRUE
         IN  trajectory[i + 1][p][a].num + SumCoord(S \ {i}, p, a)

\* | reference position of p  -  mean position of p over segment s |,
\* as sqrt(sum_a (n*ref_a - sum_a)^2) / n
Expected(s, p) ==
    LET n == Cardinality(SegmentFrames(s))
        d(a) == n * trajectory[reference_frame + 1][p][a].num
                    - SumCoord(SegmentFrames(s), p, a)
    IN  [nan |-> FALSE, rad |-> d(1) * d(1) + d(2) * d(2) + d(3) * d(3), den |-> n]

IsZero(x) == ~x.nan /\ x.rad = 0

IsOne(x) == ~x.nan /\ x.rad = x.den * x.den

FullRun == stop = Len(trajectory)

-----------------------------------------------------------------------------
(* C1 *)

\* The scenario of the specification: P=2, F=4, K=2, R=0, only particle 0
\* displaced, to (2,0,0), in frame 1
ExampleScenario ==
    /\ n_atoms = 2 /\ skip = 2 /\ reference_frame = 0
    /\ trajectory = << [p \in 1..2 |-> Point(0, 0, 0)],
                       [p \in 1..2 |-> IF p = 1 THEN Point(2, 0, 0) ELSE Point(0, 0, 0)],
                       [p \in 1..2 |-> Point(0, 0, 0)],
                       [p \in 1..2 |-> Point(0, 0, 0)] >>

\* C1: after a run over all F frames, row s holds for each particle p the
\* Euclidean magnitude of (position of p in frame R) minus (mean position of p
\* over the frames i with i div K = s); the example scenario yields [[1,0],[0,0]].
C1_RowIsDeviationOfSegmentMean ==
    (pc = "Concluded" /\ FullRun) =>
        /\ \A s \in 1..Len(trmsf) : \A p \in 1..n_atoms :
               SameValue(trmsf[s][p], Expected(s - 1, p))
        /\ ExampleScenario =>
               /\ IsOne(trmsf[1][1]) /\ IsZero(trmsf[1][2])
               /\ IsZero(trmsf[2][1]) /\ IsZero(trmsf[2][2])

C1_Witness == pc = "Concluded" /\ FullRun /\ ExampleScenario /\ IsOne(trmsf[1][1])

-----------------------------------------------------------------------------
(* C2 *)

\* C2: prepare allocates a table of exactly ceil(F/K) rows and P columns, all
\* zero, before any frame is processed, and the shape stays through every
\* per-frame step and conclude.
C2_TableShape ==
    /\ pc # "Unprepared" =>
          /\ Len(trmsf) = CeilDiv(Len(trajectory), skip)
          /\ \A s \in 1..Len(trmsf) : DOMAIN trmsf[s] = 1..n_atoms
    /\ pc = "Prepared" =>
          /\ n_visited = 0
          /\ \A s \in 1..Len(trmsf) : \A p \in 1..n_atoms : trmsf[s][p] = ZeroRoot

C2_Witness ==
    /\ pc = "Concluded"
    /\ Len(trajectory) % skip # 0
    /\ Len(trmsf) = 2
    /\ n_atoms = 2
    /\ ~IsZero(trmsf[2][2])

-----------------------------------------------------------------------------
(* C3 *)

\* The step taken is the per-frame step with index n_visited
IsFrameStep == n_visited' = n_visited + 1

\* C3: over a run that visits all F frames every row is written exactly once,
\* by the per-frame step that closes its segment, and never again by a later
\* per-frame step or by conclude.
C3_RowWrittenOnce ==
    /\ [](\A s \in 1..Len(writes) : writes[s] <= 1)
    /\ []((pc = "Concluded" /\ FullRun) =>
              /\ Len(writes) = NumSegments
              /\ \A s \in 1..Len(writes) : writes[s] = 1)
    /\ [][pc # "Unprepared" =>
            \A s \in 1..Len(writes) :
               /\ writes'[s] # writes[s] =>
                     /\ IsFrameStep
                     /\ s - 1 = n_visited \div skip
                     /\ \/ n_visited = Len(trajectory) - 1
                        \/ n_visited % skip = skip - 1
               /\ writes[s] = 1 => trmsf'[s] = trmsf[s]]_vars

C3_Witness ==
    /\ pc = "Concluded" /\ FullRun
    /\ Len(writes) = 2
    /\ writes[1] = 1 /\ writes[2] = 1
    /\ ~IsZero(trmsf[1][1])

-----------------------------------------------------------------------------
(* C4 *)

\* C4: when a segment closes the frame counter equals the segment's size: K,
\* except F mod K for the last segment when F mod K # 0.  With K > F there is
\* one segment, it holds all F frames and the last frame closes it.
C4_CounterAtClosure ==
    pc # "Unprepared" =>
        /\ \A s \in 1..Len(writes) :
              writes[s] > 0 => closed_length[s] = SegmentSize(s - 1)
        /\ skip > Len(trajectory) =>
              /\ Len(trmsf) = 1
              /\ writes[1] = (IF n_visited = Len(trajectory) THEN 1 ELSE 0)
              /\ writes[1] = 1 => closed_length[1] = Len(trajectory)

C4_Witness ==
    /\ pc = "Concluded"
    /\ Len(trajectory) % skip # 0
    /\ Len(writes) = 2
    /\ closed_length[1] = skip
    /\ closed_length[2] = Len(trajectory) % skip

C4_WitnessLongStride ==
    /\ pc = "Concluded"
    /\ skip > Len(trajectory)
    /\ closed_length = <<Len(trajectory)>>

-----------------------------------------------------------------------------
(* C5 *)

ValidConfig ==
    /\ n_atoms >= 1
    /\ skip >= 1
    /\ reference_frame \in 0..(Len(trajectory) - 1)

\* C5: with P = 0, K < 1 or R outside [0, F) construction/prepare fails and the
\* run never begins: no frame is folded into an accumulator, no row is written.
C5_InvalidConfigNeverRuns ==
    ~ValidConfig =>
        /\ pc \in {"Unprepared", "Failed"}
        /\ n_visited = 0
        /\ \A s \in 1..Len(writes) : writes[s] = 0

-----------------------------------------------------------------------------
(* C6 *)

\* C6: with a valid configuration and finite coordinates every entry of the
\* table is >= 0 in every state from prepare through conclude, and conclude's
\* check never fails.
C6_EntriesNonNegative ==
    /\ \A s \in 1..Len(trmsf) : \A p \in 1..n_atoms : GE0(trmsf[s][p])
    /\ pc # "Failed"

C6_Witness ==
    /\ pc = "Concluded"
    /\ \E s \in 1..Len(trmsf) : \E p \in 1..n_atoms : trmsf[s][p].rad > 0

-----------------------------------------------------------------------------
(* C7 *)

\* The step taken is _conclude
IsConcludeStep ==
    /\ pc \in {"Prepared", "Accumulating"}
    /\ pc' \in {"Concluded", "Failed"}
    /\ n_visited' = n_visited

\* C7 as claimed: conclude ends Failed if some entry is negative and Concluded
\* if none is negative, and leaves the table's contents unchanged.
C7_FailsIffNegative ==
    [][IsConcludeStep =>
          /\ trmsf' = trmsf
          /\ pc' = IF \E s \in 1..Len(trmsf) : \E p \in 1..n_atoms : Negative(trmsf[s][p])
                   THEN "Failed" ELSE "Concluded"]_vars

\* C7 as amended: conclude ends Failed if some entry, in any row and column,
\* fails the test (entry >= 0), which a nan entry does as well as a negative
\* one, and Concluded if every entry is >= 0; it leaves the table unchanged.
C7_FailsIffNotAllGE0 ==
    [][IsConcludeStep =>
          /\ trmsf' = trmsf
          /\ pc' = IF \E s \in 1..Len(trmsf) : \E p \in 1..n_atoms : ~GE0(trmsf[s][p])
                   THEN "Failed" ELSE "Concluded"]_vars

C7_Witness ==
    /\ pc = "Failed"
    /\ n_visited = stop
    /\ Len(trmsf) = 2
    /\ ~trmsf[1][1].nan
    /\ trmsf[2][1].nan

-----------------------------------------------------------------------------
(* C8 *)

\* C8: the reference is captured once, in prepare, as a copy of frame R's
\* positions, before any frame is accumulated; no later step and no movement
\* of the trajectory's live buffer to another frame changes it.
C8_ReferenceIsFrameR ==
    /\ [](pc # "Unprepared" =>
             ReferenceValue = Positions(trajectory, reference_frame))
    /\ [](pc = "Prepared" => n_visited = 0 /\ avg_coordinates = <<>>)
    /\ [][reference_positions' # reference_positions => pc = "Unprepared"]_vars

C8_Witness ==
    /\ pc \in {"Accumulating", "Concluded"}
    /\ ts # reference_frame
    /\ Positions(trajectory, ts) # Positions(trajectory, reference_frame)
    /\ ReferenceValue = Positions(trajectory, reference_frame)

-----------------------------------------------------------------------------
(* C9 *)

\* C9: a second run of the same object with the same inputs yields the same
\* table as the first; the sum, counter and table left by the first run do not
\* influence it.
C9_RerunSameTable ==
    run_no >= 2 =>
        /\ pc = "Prepared" =>
              \A s \in 1..Len(trmsf) : \A p \in 1..n_atoms : trmsf[s][p] = ZeroRoot
        /\ pc = "Concluded" => trmsf = prev_trmsf

C9_Witness ==
    /\ run_no = 2
    /\ pc = "Concluded"
    /\ Len(trmsf) = 2
    /\ ~IsZero(trmsf[1][1])
    /\ \E a \in Axes : avg_coordinates[1][a].num # 0

-----------------------------------------------------------------------------
(* C10 *)

\* C10: the lifecycle is Unprepared -> Prepared -> Accumulating -> Concluded
\* or Failed: per-frame steps only after prepare, with index 0, 1, ..., F-1 in
\* order; prepare is not re-entered; conclude only after the last frame; the
\* segment a per-frame step touches is never lower than the previous step's and
\* never one already closed; and every run ends Concluded or Failed.
C10_Lifecycle ==
    /\ [][/\ pc' # pc =>
                <<pc, pc'>> \in { <<"Unprepared", "Prepared">>,
                                  <<"Prepared", "Accumulating">>,
                                  <<"Accumulating", "Concluded">>,
                                  <<"Accumulating", "Failed">> }
          /\ n_visited' # n_visited =>
                /\ pc \in {"Prepared", "Accumulating"}
                /\ pc' = "Accumulating"
                /\ n_visited' = n_visited + 1
                /\ n_visited < Len(trajectory)
                /\ n_visited >= 1 => SegNum(n_visited) >= SegNum(n_visited - 1)
                /\ SegNum(n_visited) + 1 \in 1..Len(writes)
                /\ writes[SegNum(n_visited) + 1] = 0
          /\ pc' \in {"Concluded", "Failed"} => n_visited = Len(trajectory)
       ]_vars
    /\ <>(pc \in {"Concluded", "Failed"})

C10_Witness ==
    /\ pc = "Concluded"
    /\ n_visited = 4
    /\ skip = 2
    /\ writes = <<1, 1>>

-----------------------------------------------------------------------------
(* C11 *)

\* Frame j holds, for every particle, exactly the positions of frame R
SameAsReference(j) ==
    \A p \in 1..n_atoms :
        Positions(trajectory, j)[p] = Positions(trajectory, reference_frame)[p]

\* C11: with K = 1, for any reference frame R, the row of every frame j whose
\* positions equal frame R's for every particle (j = R included) is all zeros
\* in the completed table.
C11_SelfComparisonIsZero ==
    (pc = "Concluded" /\ FullRun /\ skip = 1) =>
        \A j \in 0..(Len(trajectory) - 1) :
            SameAsReference(j) => \A p \in 1..n_atoms : IsZero(trmsf[j + 1][p])

C11_Witness ==
    /\ pc = "Concluded" /\ FullRun /\ skip = 1
    /\ reference_frame = 1
    /\ Len(trajectory) = 4
    /\ SameAsReference(3)
    /\ ~SameAsReference(0)
    /\ ~SameAsReference(2)
    /\ \A p \in 1..n_atoms : IsZero(trmsf[4][p])
    /\ ~IsZero(trmsf[1][1])

-----------------------------------------------------------------------------
(* C12 *)

\* C12: when a per-frame step starts a new segment (i mod K = 0, i > 0) and
\* zeroes the sum and counter, the previous segment, i div K - 1, has already
\* been closed and its row written with all the frames counted so far: the
\* reset discards nothing that was not finalized into the table.
C12_ResetAfterClosure ==
    [][(IsFrameStep /\ n_visited > 0 /\ n_visited % skip = 0) =>
          /\ writes[n_visited \div skip] = 1
          /\ closed_length[n_visited \div skip] = seg_length
          /\ seg_length' = 1]_vars

C12_Witness ==
    /\ pc = "Accumulating"
    /\ skip = 2
    /\ n_visited = 3
    /\ seg_length = 1
    /\ writes = <<1, 0>>
    /\ closed_length = <<2, 0>>
    /\ ~IsZero(trmsf[1][1])

-----------------------------------------------------------------------------
(* C13 *)

\* The elementwise sum of the positions of the frames from..to
SumOfFrames(from, to) ==
    [p \in 1..n_atoms |-> [a \in Axes |-> Num(SumCoord(from..to, p, a))]]

\* C13: after the per-frame step with index i the counter is (i mod K) + 1,
\* in 1..K, and the running sum is the elementwise sum of the positions of
\* the frames K*(i div K) .. i; the sum and counter are reset at the steps
\* with i mod K = 0 and at no other step.
C13_SumAndCounter ==
    /\ [](n_visited >= 1 =>
             LET i == n_visited - 1
             IN  /\ seg_length = (i % skip) + 1
                 /\ seg_length \in 1..skip
                 /\ avg_coordinates = SumOfFrames(skip * (i \div skip), i))
    /\ [][IF IsFrameStep
          THEN IF n_visited % skip = 0
               THEN /\ seg_length' = 1
                    /\ avg_coordinates' = SumOfFrames(n_visited, n_visited)
               ELSE /\ seg_length' = seg_length + 1
                    /\ avg_coordinates' =
                          [p \in 1..n_atoms |-> [a \in Axes |->
                              Num(avg_coordinates[p][a].num
                                  + Positions(trajectory, n_visited)[p][a].num)]]
          ELSE UNCHANGED <<seg_length, avg_coordinates>>]_vars

C13_Witness ==
    /\ pc = "Accumulating"
    /\ skip = 3
    /\ n_visited = 3
    /\ seg_length = 3
    /\ \A p \in 1..n_atoms : \E a \in Axes : avg_coordinates[p][a].num # 0
    /\ Positions(trajectory, 0) # Positions(trajectory, 1)
    /\ Positions(trajectory, 1) # Positions(trajectory, 2)

-----------------------------------------------------------------------------
(* C14 *)

\* The driver visits only the first M < F frames and stops inside a segment
StopsMidSegment == stop < Len(trajectory) /\ stop % skip # 0

\* C14: the table's size and the end-of-trajectory test use the trajectory's
\* length F, not the number M of frames visited: when M < F and M mod K # 0
\* the segment in progress is never closed, its row and every row after it,
\* up to ceil(F/K) - 1, keep the initial zeros, and conclude succeeds.
C14_UnclosedRowsStayZero ==
    StopsMidSegment =>
        /\ pc # "Unprepared" => Len(trmsf) = CeilDiv(Len(trajectory), skip)
        /\ pc # "Failed"
        /\ pc = "Concluded" =>
              /\ n_visited = stop
              /\ \A s \in 1..Len(trmsf) :
                    IF s - 1 < stop \div skip
                    THEN writes[s] = 1
                    ELSE /\ writes[s] = 0
                         /\ \A p \in 1..n_atoms : trmsf[s][p] = ZeroRoot

C14_Witness ==
    /\ pc = "Concluded"
    /\ Len(trajectory) = 4 /\ skip = 2 /\ stop = 1
    /\ writes = <<0, 0>>
    /\ seg_length = 1
    /\ \E a \in Axes : avg_coordinates[1][a].num # reference_positions.data[1][a].num

C14_WitnessSecondSegment ==
    /\ pc = "Concluded"
    /\ Len(trajectory) = 4 /\ skip = 2 /\ stop = 3
    /\ writes = <<1, 0>>
    /\ ~IsZero(trmsf[1][1])
    /\ \E a \in Axes : avg_coordinates[1][a].num # reference_positions.data[1][a].num

=============================================================================
